---- MODULE Spec2Model ----
(***************************************************************************)
(* The heap allocator of src/Mem.c (malloc, free, calloc, realloc over an  *)
(* sbrk-grown data segment) as a state machine.                            *)
(*                                                                         *)
(* Memory is modelled byte for byte: the block headers live in the same    *)
(* bytes as the payloads, as they do in the program, so a stale header, a  *)
(* header written over caller data and caller data written over a header   *)
(* are what they are in the program.  The layout is that of an LP64 build  *)
(* (size_t and pointers of 8 bytes, sizeof(struct _block) = 24).           *)
(*                                                                         *)
(* A 64-bit word is held as the integer of least magnitude congruent to it *)
(* modulo 2^64: 5 is 5 and -4 is 2^64 - 4 (SIZE_MAX - 3).  On such         *)
(* representatives + and - are the machine's + and - modulo 2^64 (the sum  *)
(* of two small representatives is the representative of the wrapped sum), *)
(* the conversion to intptr_t is the identity, and the unsigned order is   *)
(* ULess.  Only words within 2^23 of 0 or of 2^64 are representable; a run *)
(* that produces any other word is not followed (status "undefined").      *)
(***************************************************************************)
EXTENDS Integers, Sequences, FiniteSets, TLC

\* ------------------------------------------------------------- bounds
\* Public calls followed per run (the nine counters are otherwise unbounded):
\* of a caller of all four entry points, and of a caller of malloc, calloc and
\* free with ordinary sizes.
MaxCalls == 3
MaxCallsLong == 6
\* Bytes of data segment the OS grants before it denies sbrk (RLIMIT_DATA).
MemCap == 104

\* ---------------------------------------------------------- the platform
\* The program break at process start.
Brk0 == 4096
\* sizeof(struct _block): size_t, pointer, bool, char[3], padded to 8.
HeaderSize == 24
\* offsetof(struct _block, size), (.., next), (.., free).
OffSize == 0
OffNext == 8
OffFree == 16
NULL == 0
\* (void *)-1, sbrk's failure sentinel.
SbrkFailed == -1
INT_MAX == 2147483647
\* A word outside the representable window (see above).
Junk == 2^30

Addrs == Brk0 .. (Brk0 + MemCap - 1)

\* The unsigned order of two words.
ULess(a, b) == IF (a >= 0) = (b >= 0) THEN a < b ELSE a >= 0

\* Byte i (0 the lowest) of the 8-byte little-endian word v.
Byte(v, i) ==
    CASE i = 0 -> v % 256
      [] i = 1 -> (v \div 256) % 256
      [] i = 2 -> (v \div 65536) % 256
      [] OTHER -> IF v < 0 THEN 255 ELSE 0

\* The word held in the 8 bytes of m from a.
Load8(m, a) ==
    LET low == m[a] + 256 * m[a + 1] + 65536 * m[a + 2]
    IN  IF \A i \in 3..7 : m[a + i] = 0 THEN low
        ELSE IF \A i \in 3..7 : m[a + i] = 255 THEN low - 16777216
        ELSE Junk


\* ------------------------------------------------------ the machine state
\* A record s of the process: its memory and break, the program's globals
\* (under their names in the source) and how the process stands:
\*   "running"    between public calls;
\*   "aborted"    an assert failed;
\*   "undefined"  the program read or wrote outside [Brk0, brk), read a bool
\*                byte that is neither 0 nor 1, or produced a word outside
\*                the window: undefined behaviour, not followed further;
\*   "hung"       a list walk entered a cycle and never returns.
Running(s) == s.status = "running"
Undefined(s) == IF Running(s) THEN [s EXCEPT !.status = "undefined"] ELSE s
Aborted(s) == IF Running(s) THEN [s EXCEPT !.status = "aborted"] ELSE s
Hung(s) == IF Running(s) THEN [s EXCEPT !.status = "hung"] ELSE s

\* The n bytes from a lie in the data segment.
InHeap(s, a, n) == a >= Brk0 /\ n >= 0 /\ a + n <= s.brk

get8(s, a) == IF InHeap(s, a, 8) THEN Load8(s.mem, a) ELSE Junk
get1(s, a) == IF InHeap(s, a, 1) THEN s.mem[a] ELSE Junk

put8(s, a, v) ==
    IF ~Running(s) THEN s
    ELSE IF ~InHeap(s, a, 8) \/ v >= 2^23 \/ v < -(2^23) THEN Undefined(s)
    ELSE [s EXCEPT !.mem = [@ EXCEPT ![a] = Byte(v, 0), ![a + 1] = Byte(v, 1),
                                     ![a + 2] = Byte(v, 2), ![a + 3] = Byte(v, 3),
                                     ![a + 4] = Byte(v, 4), ![a + 5] = Byte(v, 5),
                                     ![a + 6] = Byte(v, 6), ![a + 7] = Byte(v, 7)]]

put1(s, a, b) ==
    IF ~Running(s) THEN s
    ELSE IF ~InHeap(s, a, 1) THEN Undefined(s)
    ELSE [s EXCEPT !.mem = [@ EXCEPT ![a] = b]]

\* struct _block's fields, read through a block pointer b.
b_size(s, b) == get8(s, b + OffSize)
b_next(s, b) == get8(s, b + OffNext)
b_free(s, b) == get1(s, b + OffFree)

\* A header the program can read: its bytes lie in the data segment, its
\* words are in the window and its free byte is a bool.
Block(s, b) ==
    /\ InHeap(s, b, OffFree + 1)
    /\ b_size(s, b) # Junk
    /\ b_next(s, b) # Junk
    /\ b_free(s, b) \in {0, 1}

\* A rounding that takes a multiple of 4 to the next one.
ALIGN4_past(sz) == ((sz \div 4) * 4) + 4
ALIGN4(sz) == (((sz - 1) \div 4) * 4) + 4
BLOCK_DATA(b) == b + HeaderSize
BLOCK_HEADER(ptr) == ptr - HeaderSize

\* --------------------------------------------------------- findFreeBlock
\* The result of a search: the block found (or NULL), the caller's *last as
\* the search leaves it, and the state (the next-fit cursor, the status).
Found(s, curr, last) == [s |-> s, curr |-> curr, last |-> last]

\* curr->free && curr->size >= size
Fits(s, curr, size) == b_free(s, curr) = 1 /\ ~ULess(b_size(s, curr), size)

\* FIT: while (curr && !(curr->free && curr->size >= size))
\* seen holds the blocks the loop has left behind: the loop reads and never
\* writes the list, so coming back to one of them is a cycle it never leaves.
\* A scan that never takes the block it starts at.
RECURSIVE FirstFitLoop_late(_, _, _, _, _)
FirstFitLoop_late(s, curr, last, size, seen) ==
    IF curr = NULL THEN Found(s, NULL, last)
    ELSE IF ~Block(s, curr) THEN Found(Undefined(s), NULL, last)
    ELSE IF curr \in seen THEN Found(Hung(s), NULL, last)
    ELSE IF Fits(s, curr, size) /\ seen # {} THEN Found(s, curr, last)
    ELSE FirstFitLoop_late(s, b_next(s, curr), curr, size, seen \cup {curr})

RECURSIVE FirstFitLoop(_, _, _, _, _)
FirstFitLoop(s, curr, last, size, seen) ==
    IF curr = NULL THEN Found(s, NULL, last)
    ELSE IF ~Block(s, curr) THEN Found(Undefined(s), NULL, last)
    ELSE IF curr \in seen THEN Found(Hung(s), NULL, last)
    ELSE IF Fits(s, curr, size) THEN Found(s, curr, last)
    ELSE FirstFitLoop(s, b_next(s, curr), curr, size, seen \cup {curr})

\* BEST: int smallest = INT_MAX; the test curr->size < smallest compares as
\* size_t, and smallest = curr->size keeps a size below INT_MAX as it is.
RECURSIVE BestFitLoop(_, _, _, _, _, _, _)
BestFitLoop(s, curr, last, size, smallest, bestFit, seen) ==
    IF curr = NULL THEN Found(s, bestFit, last)
    ELSE IF ~Block(s, curr) THEN Found(Undefined(s), NULL, last)
    ELSE IF curr \in seen THEN Found(Hung(s), NULL, last)
    ELSE IF Fits(s, curr, size) /\ ULess(b_size(s, curr), smallest)
         THEN BestFitLoop(s, b_next(s, curr), curr, size,
                          b_size(s, curr), curr, seen \cup {curr})
         ELSE BestFitLoop(s, b_next(s, curr), curr, size,
                          smallest, bestFit, seen \cup {curr})

\* WORST: int largest = 0; curr->size > largest compares as size_t, and
\* largest = curr->size keeps the low 32 bits, which for a word of the window
\* are the word.
RECURSIVE WorstFitLoop(_, _, _, _, _, _, _)
WorstFitLoop(s, curr, last, size, largest, worstFit, seen) ==
    IF curr = NULL THEN Found(s, worstFit, last)
    ELSE IF ~Block(s, curr) THEN Found(Undefined(s), NULL, last)
    ELSE IF curr \in seen THEN Found(Hung(s), NULL, last)
    ELSE IF Fits(s, curr, size) /\ ULess(largest, b_size(s, curr))
         THEN WorstFitLoop(s, b_next(s, curr), curr, size,
                           b_size(s, curr), curr, seen \cup {curr})
         ELSE WorstFitLoop(s, b_next(s, curr), curr, size,
                           largest, worstFit, seen \cup {curr})

\* NEXT, first loop: from actualLast, which it moves along with *last.
RECURSIVE NextFitLoop(_, _, _, _, _)
NextFitLoop(s, curr, last, size, seen) ==
    IF curr = NULL THEN Found(s, NULL, last)
    ELSE IF ~Block(s, curr) THEN Found(Undefined(s), NULL, last)
    ELSE IF curr \in seen THEN Found(Hung(s), NULL, last)
    ELSE IF Fits(s, curr, size) THEN Found(s, curr, last)
    ELSE NextFitLoop([s EXCEPT !.actualLast = curr], b_next(s, curr), curr,
                     size, seen \cup {curr})

\* NEXT: the first loop (r is what it found), then from heapList if it ran
\* off the list.
NextFitAgain(r, size) ==
    IF Running(r.s) /\ r.curr = NULL
    THEN FirstFitLoop(r.s, r.s.heapList, r.last, size, {})
    ELSE r
NextFit(s, last, size) ==
    NextFitAgain(NextFitLoop(s, s.actualLast, last, size, {}), size)

\* findFreeBlock(&last, size) of the build s.fit.
findFreeBlock(s, last, size) ==
    CASE s.fit = "FIT"   -> FirstFitLoop(s, s.heapList, last, size, {})
      [] s.fit = "BEST"  -> BestFitLoop(s, s.heapList, last, size, INT_MAX, NULL, {})
      [] s.fit = "WORST" -> WorstFitLoop(s, s.heapList, last, size, 0, NULL, {})
      [] s.fit = "NEXT"  -> NextFit(s, last, size)

\* ------------------------------------------ the worst-fit scan, any size
\* The worst-fit scan keeps a size in an int, and what that does shows only
\* on blocks of 2^31 bytes and more, which the words above cannot hold.  Here
\* is the same loop over a heap list given as the sequence of its blocks'
\* sizes and free flags (curr is a position in it; one past its end is NULL,
\* and 0 is the NULL worstFit starts as), with a size_t as its four 16-bit
\* limbs, the most significant first.
Wide(n) == <<0, 0, 0, n>>
WideLess(a, b) ==
    \E i \in 1 .. 4 : a[i] < b[i] /\ \A j \in 1 .. (i - 1) : a[j] = b[j]

\* (size_t)(int)w: the int keeps the low 32 bits of w (as the compilers of
\* LP64 platforms define the conversion), and the comparison with a size_t
\* extends their sign.
IntOf(w) ==
    LET sign == IF w[3] >= 32768 THEN 65535 ELSE 0
    IN  <<sign, sign, w[3], w[4]>>

\* WORST: largest is the int as the comparison curr->size > largest sees it.
RECURSIVE WorstFitScan(_, _, _, _, _)
WorstFitScan(blocks, curr, size, largest, worstFit) ==
    IF curr > Len(blocks) THEN worstFit
    ELSE IF /\ blocks[curr].free
            /\ ~WideLess(blocks[curr].size, size)
            /\ WideLess(largest, blocks[curr].size)
         THEN WorstFitScan(blocks, curr + 1, size, IntOf(blocks[curr].size), curr)
         ELSE WorstFitScan(blocks, curr + 1, size, largest, worstFit)

\* -------------------------------------------------------------- growHeap
\* What a function returns: the state it leaves and its value, which nobody
\* gets if the process did not survive the call.
Return(s, v) == [s |-> s, ret |-> IF Running(s) THEN v ELSE NULL]

\* sbrk(incr) with incr # 0: the OS grants it (granted) unless it would take
\* the break below the heap's start or above its limit.
sbrk(s, incr, granted) ==
    IF granted /\ s.brk + incr >= Brk0 /\ s.brk + incr <= Brk0 + MemCap
    THEN [s |-> [s EXCEPT !.brk = s.brk + incr, !.sbrk_calls = @ + 1], ret |-> s.brk]
    ELSE [s |-> [s EXCEPT !.sbrk_calls = @ + 1, !.sbrk_denied = @ + 1],
          ret |-> SbrkFailed]

\* if (heapList == NULL) heapList = curr;
setHeapList(s, curr) == IF s.heapList = NULL THEN [s EXCEPT !.heapList = curr] ELSE s
\* if (last) last->next = curr;
setLastNext(s, last, curr) == IF last # NULL THEN put8(s, last + OffNext, curr) ELSE s

\* growHeap from its assert on: curr is what sbrk(0) returned and os what
\* sbrk(sizeof(struct _block) + size) returned and left.
growHeapAt(os, curr, last, size) ==
    IF curr # os.ret THEN Return(Aborted(os.s), NULL)
    ELSE IF curr = SbrkFailed THEN Return(os.s, NULL)
    ELSE LET s1 == setHeapList(os.s, curr)
             s2 == setLastNext(s1, last, curr)
             s3 == put8(s2, curr + OffSize, size)
             s4 == put8(s3, curr + OffNext, NULL)
             s5 == put1(s4, curr + OffFree, 0)
         IN  Return([s5 EXCEPT !.max_heap = @ + size,
                               !.num_grows = @ + 1,
                               !.num_blocks = @ + 1], curr)

\* growHeap(last, size).
growHeap(s, last, size, granted) ==
    growHeapAt(sbrk(s, HeaderSize + size, granted), s.brk, last, size)

\* ----------------------------------------------------------------- malloc
\* *dst = *src for two words.
copy8(s, dst, src) == put8(s, dst, get8(s, src))

\* The split of the found block next: its writes are made one after the
\* other, in the program's order, each reading what the ones before left.
split(s, next, size) ==
    IF ULess(size + HeaderSize, b_size(s, next))
    THEN LET newBlock == next + HeaderSize + size
             a1 == put8(s, newBlock + OffSize, b_size(s, next) - size - HeaderSize)
             a2 == put1(a1, newBlock + OffFree, 1)
             a3 == copy8(a2, newBlock + OffNext, next + OffNext)
             a4 == put8(a3, next + OffSize, size)
             a5 == put8(a4, next + OffNext, newBlock)
         IN  [a5 EXCEPT !.num_splits = @ + 1]
    ELSE s

\* A malloc that returns without counting itself.
mallocReturn_uncounted(s, next, size) ==
    LET s1 == put1(s, next + OffFree, 0)
    IN  Return([s1 EXCEPT !.num_requested = @ + size], BLOCK_DATA(next))

\* next->free = false; num_requested += size; num_mallocs++; return.
mallocReturn(s, next, size) ==
    LET s1 == put1(s, next + OffFree, 0)
    IN  Return([s1 EXCEPT !.num_requested = @ + size, !.num_mallocs = @ + 1],
               BLOCK_DATA(next))

\* malloc after growHeap returned g.
mallocGrown(g, size) ==
    IF g.ret = NULL THEN g ELSE mallocReturn(g.s, g.ret, size)

\* A malloc that hands growHeap the head of the list, as if the search had
\* left *last as malloc set it.
mallocFound_head(r, size, granted) ==
    IF ~Running(r.s) THEN Return(r.s, NULL)
    ELSE IF r.curr = NULL
         THEN mallocGrown(growHeap(r.s, r.s.heapList, size, granted), size)
    ELSE LET s1 == split(r.s, r.curr, size)
         IN  mallocReturn([s1 EXCEPT !.num_reuses = @ + 1], r.curr, size)

\* malloc after the search returned r.
mallocFound(r, size, granted) ==
    IF ~Running(r.s) THEN Return(r.s, NULL)
    ELSE IF r.curr = NULL THEN mallocGrown(growHeap(r.s, r.last, size, granted), size)
    ELSE LET s1 == split(r.s, r.curr, size)
         IN  mallocReturn([s1 EXCEPT !.num_reuses = @ + 1], r.curr, size)

\* A malloc without the test of the rounded size against zero.
malloc_unguarded(s, request, granted) ==
    mallocFound(findFreeBlock([s EXCEPT !.atexit_registered = 1], s.heapList,
                              ALIGN4(request)),
                ALIGN4(request), granted)

\* malloc(size).
malloc(s, request, granted) ==
    LET s0   == [s EXCEPT !.atexit_registered = 1]
        size == ALIGN4(request)
    IN  IF size = 0 THEN Return(s0, NULL)
        ELSE mallocFound(findFreeBlock(s0, s0.heapList, size), size, granted)

\* ------------------------------------------------------------------- free
\* temp->size += temp->next->size + sizeof(struct _block);
\* temp->next = temp->next->next; num_coalesces++;
merge(s, temp) ==
    LET m1 == put8(s, temp + OffSize,
                   b_size(s, temp) + b_size(s, b_next(s, temp)) + HeaderSize)
        m2 == copy8(m1, temp + OffNext, b_next(m1, temp) + OffNext)
    IN  [m2 EXCEPT !.num_coalesces = @ + 1]

\* The pass over the list: while (temp) { if (...) merge; temp = temp->next; }
\* The pass rewrites the list as it goes, so a cycle is recognised by its
\* length: more steps than the data segment has room for headers.
RECURSIVE CoalescePass(_, _, _)
CoalescePassOn(s, temp, fuel) == CoalescePass(s, b_next(s, temp), fuel)
CoalescePass(s, temp, fuel) ==
    IF temp = NULL \/ ~Running(s) THEN s
    ELSE IF fuel = 0 THEN Hung(s)
    ELSE IF ~Block(s, temp) THEN Undefined(s)
    ELSE IF b_free(s, temp) = 1 /\ b_next(s, temp) # NULL
         THEN IF ~Block(s, b_next(s, temp)) THEN Undefined(s)
              ELSE IF b_free(s, b_next(s, temp)) = 1
                   THEN CoalescePassOn(merge(s, temp), temp, fuel - 1)
                   ELSE CoalescePassOn(s, temp, fuel - 1)
         ELSE CoalescePassOn(s, temp, fuel - 1)

coalesce(s) == CoalescePass(s, s.heapList, MemCap)

\* free(ptr).
free(s, ptr) ==
    IF ptr = NULL \/ ~Running(s) THEN s
    ELSE IF b_free(s, BLOCK_HEADER(ptr)) \notin {0, 1} THEN Undefined(s)
    ELSE IF b_free(s, BLOCK_HEADER(ptr)) = 1 THEN Aborted(s)
    ELSE LET s1 == coalesce(put1(s, BLOCK_HEADER(ptr) + OffFree, 1))
         IN  [s1 EXCEPT !.num_frees = @ + 1]

\* ----------------------------------------------------------- calloc, realloc
memset(s, p, c, n) ==
    IF ~Running(s) THEN s
    ELSE IF ~InHeap(s, p, n) THEN Undefined(s)
    ELSE [s EXCEPT !.mem = [x \in Addrs |-> IF x >= p /\ x < p + n THEN c ELSE @[x]]]

\* memcpy of overlapping objects is undefined.
memcpy(s, dst, src, n) ==
    IF ~Running(s) THEN s
    ELSE IF ~InHeap(s, dst, n) \/ ~InHeap(s, src, n) THEN Undefined(s)
    ELSE IF n > 0 /\ dst < src + n /\ src < dst + n THEN Undefined(s)
    ELSE [s EXCEPT !.mem = [x \in Addrs |->
                               IF x >= dst /\ x < dst + n THEN @[src + (x - dst)]
                               ELSE @[x]]]

\* A calloc that leaves the block as malloc returned it.
callocZero_unfilled(m, total_size) == m

\* calloc after malloc returned m.
callocZero(m, total_size) ==
    IF m.ret # NULL THEN Return(memset(m.s, m.ret, 0, total_size), m.ret) ELSE m

\* calloc(nmemb, size): the product is the machine's, and the model's sizes
\* keep it far from 2^64.
calloc(s, nmemb, size, granted) ==
    callocZero(malloc(s, nmemb * size, granted), nmemb * size)

\* memcpy(newPtr, ptr, oldSize < size ? oldSize : size)
reallocCopy(s, newPtr, ptr, size) ==
    LET oldSize == b_size(s, BLOCK_HEADER(ptr))
    IN  IF oldSize = Junk THEN Undefined(s)
        ELSE memcpy(s, newPtr, ptr, IF ULess(oldSize, size) THEN oldSize ELSE size)

\* realloc after malloc returned m.
reallocMove(m, ptr, size) ==
    IF m.ret = NULL THEN m
    ELSE Return(free(reallocCopy(m.s, m.ret, ptr, size), ptr), m.ret)

\* A realloc without the case of a size of zero.
realloc_unfreed(s, ptr, size, granted) ==
    IF ptr = NULL THEN malloc(s, size, granted)
    ELSE reallocMove(malloc(s, size, granted), ptr, size)

\* realloc(ptr, size).
realloc(s, ptr, size, granted) ==
    IF ptr = NULL THEN malloc(s, size, granted)
    ELSE IF size = 0 THEN Return(free(s, ptr), NULL)
    ELSE reallocMove(malloc(s, size, granted), ptr, size)

\* ------------------------------------------------------------ the system
VARIABLES
    fit,                \* the build: which of FIT, BEST, WORST, NEXT is defined 0
    mem, brk,           \* the data segment's bytes and the program break
    sbrk_calls,         \* the OS's count of sbrk requests other than sbrk(0)
    sbrk_denied,        \* ... and of those it denied
    heapList, actualLast,
    atexit_registered,
    num_mallocs, num_frees, num_reuses, num_grows, num_splits,
    num_coalesces, num_blocks, num_requested, max_heap,
    status,
    owned,              \* the caller: live pointer -> the size it asked for
    freed,              \* the caller: pointers it has freed and not got again
    peak,               \* the caller: the most pointers it has held at once
    call,               \* the last public call and its result
    calls,              \* the number of public calls made
    scan                \* a scan of a list of blocks of any size, and its result

vars == <<fit, mem, brk, sbrk_calls, sbrk_denied, heapList, actualLast,
          atexit_registered, num_mallocs, num_frees, num_reuses, num_grows,
          num_splits, num_coalesces, num_blocks, num_requested, max_heap,
          status, owned, freed, peak, call, calls, scan>>

\* The process as a record, and a record as the next state of the process.
M == [fit |-> fit, mem |-> mem, brk |-> brk, sbrk_calls |-> sbrk_calls,
      sbrk_denied |-> sbrk_denied, heapList |-> heapList,
      actualLast |-> actualLast, atexit_registered |-> atexit_registered,
      num_mallocs |-> num_mallocs, num_frees |-> num_frees,
      num_reuses |-> num_reuses, num_grows |-> num_grows,
      num_splits |-> num_splits, num_coalesces |-> num_coalesces,
      num_blocks |-> num_blocks, num_requested |-> num_requested,
      max_heap |-> max_heap, status |-> status]

Becomes(s) ==
    /\ fit' = s.fit /\ mem' = s.mem /\ brk' = s.brk
    /\ sbrk_calls' = s.sbrk_calls /\ sbrk_denied' = s.sbrk_denied
    /\ heapList' = s.heapList /\ actualLast' = s.actualLast
    /\ atexit_registered' = s.atexit_registered
    /\ num_mallocs' = s.num_mallocs /\ num_frees' = s.num_frees
    /\ num_reuses' = s.num_reuses /\ num_grows' = s.num_grows
    /\ num_splits' = s.num_splits /\ num_coalesces' = s.num_coalesces
    /\ num_blocks' = s.num_blocks /\ num_requested' = s.num_requested
    /\ max_heap' = s.max_heap /\ status' = s.status

\* What the callers of the model ask for.  A negative size is a size near
\* SIZE_MAX (see the head of the module): -1 is SIZE_MAX, -4 is SIZE_MAX - 3,
\* -8 is SIZE_MAX - 7.
MallocSizes == {0, 3, 8, 36, -1, -4, -8}
OrdinarySizes == {0, 3, 8}
CallocArgs == {<<0, 4>>, <<1, 3>>, <<2, 4>>}
OrdinaryCallocArgs == {<<8, 4>>}
ReallocSizes == {0, 3, 8}
\* The bytes a caller stores in a block it owns: byte i of the block gets
\* Pattern(i); a caller stores at most StoreMax bytes.
Pattern(i) == 161 + i
StoreMax == 8

\* A public call with its arguments and result; again: it is a free of a
\* pointer the caller had freed already and not got again since.
Call(op, ptr, nmemb, size, ret) ==
    [op |-> op, ptr |-> ptr, nmemb |-> nmemb, size |-> size, ret |-> ret,
     again |-> (op = "free" /\ ptr \in freed)]

\* The caller's books after a call that returned ret for a request of n bytes.
Got(own, ret, n) ==
    IF ret = NULL THEN own
    ELSE [p \in DOMAIN own \cup {ret} |-> IF p = ret THEN n ELSE own[p]]
Lost(own, ptr) == [p \in DOMAIN own \ {ptr} |-> own[p]]
Most(n, own) == IF Cardinality(DOMAIN own) > n THEN Cardinality(DOMAIN own) ELSE n

\* The process at its start, and its caller.
Start ==
    /\ fit \in {"FIT", "BEST", "WORST", "NEXT"}
    /\ mem = [a \in Addrs |-> 0]
    /\ brk = Brk0
    /\ sbrk_calls = 0 /\ sbrk_denied = 0
    /\ heapList = NULL /\ actualLast = NULL
    /\ atexit_registered = 0
    /\ num_mallocs = 0 /\ num_frees = 0 /\ num_reuses = 0 /\ num_grows = 0
    /\ num_splits = 0 /\ num_coalesces = 0 /\ num_blocks = 0
    /\ num_requested = 0 /\ max_heap = 0
    /\ status = "running"
    /\ owned = <<>>
    /\ freed = {}
    /\ peak = 0
    /\ call = Call("none", NULL, 0, 0, NULL)
    /\ calls = 0

\* No scan of a list given from outside.
NoScan == [blocks |-> <<>>, size |-> Wide(0), done |-> FALSE, ret |-> 0]

Init == Start /\ scan = NoScan

\* A caller that has freed a pointer twice, which is undefined behaviour of
\* its own, is followed through that call and no further.
CanCall(max) == status = "running" /\ ~call.again /\ calls < max

\* TLC evaluates a bound variable's set once and a LET definition at each use:
\* the calls are bound with \E over a singleton.
MallocOf(sizes, max) ==
    /\ CanCall(max)
    /\ \E size \in sizes, granted \in BOOLEAN :
        \E m \in {malloc(M, size, granted)} :
            /\ Becomes(m.s)
            /\ owned' = Got(owned, m.ret, size)
            /\ freed' = freed \ {m.ret}
            /\ peak' = Most(peak, owned')
            /\ call' = Call("malloc", NULL, 0, size, m.ret)
            /\ calls' = calls + 1
            /\ UNCHANGED scan

\* free(p) of a pointer the caller owns, or of one it has freed already (a
\* double free); free(NULL).
FreeOf(max) ==
    /\ CanCall(max)
    /\ \E p \in DOMAIN owned \cup freed \cup {NULL} :
        \E s \in {free(M, p)} :
            /\ Becomes(s)
            /\ owned' = IF Running(s) THEN Lost(owned, p) ELSE owned
            /\ freed' = IF Running(s) /\ p # NULL THEN freed \cup {p} ELSE freed
            /\ peak' = peak
            /\ call' = Call("free", p, 0, 0, NULL)
            /\ calls' = calls + 1
            /\ UNCHANGED scan

CallocOf(arguments, max) ==
    /\ CanCall(max)
    /\ \E args \in arguments, granted \in BOOLEAN :
        \E m \in {calloc(M, args[1], args[2], granted)} :
            /\ Becomes(m.s)
            /\ owned' = Got(owned, m.ret, args[1] * args[2])
            /\ freed' = freed \ {m.ret}
            /\ peak' = Most(peak, owned')
            /\ call' = Call("calloc", NULL, args[1], args[2], m.ret)
            /\ calls' = calls + 1
            /\ UNCHANGED scan

Malloc == MallocOf(MallocSizes, MaxCalls)
Free == FreeOf(MaxCalls)
Calloc == CallocOf(CallocArgs, MaxCalls)

Realloc ==
    /\ CanCall(MaxCalls)
    /\ \E p \in DOMAIN owned \cup {NULL}, size \in ReallocSizes, granted \in BOOLEAN :
        \E m \in {realloc(M, p, size, granted)} :
            \E gone \in {Running(m.s) /\ p # NULL /\ (size = 0 \/ m.ret # NULL)} :
                /\ Becomes(m.s)
                /\ owned' = Got(IF gone THEN Lost(owned, p) ELSE owned, m.ret, size)
                /\ freed' = (IF gone THEN freed \cup {p} ELSE freed) \ {m.ret}
                /\ peak' = Most(peak, owned')
                /\ call' = Call("realloc", p, 0, size, m.ret)
                /\ calls' = calls + 1
                /\ UNCHANGED scan

\* The caller stores into a block it owns.
Store ==
    /\ status = "running" /\ ~call.again
    /\ \E p \in DOMAIN owned :
        \E n \in {IF ULess(owned[p], StoreMax) THEN owned[p] ELSE StoreMax} :
            /\ InHeap(M, p, n)
            /\ mem' = [x \in Addrs |-> IF x >= p /\ x < p + n THEN Pattern(x - p)
                                       ELSE mem[x]]
            /\ mem' # mem
            /\ call' = Call("store", p, 0, n, NULL)
            /\ UNCHANGED <<fit, brk, sbrk_calls, sbrk_denied, heapList, actualLast,
                           atexit_registered, num_mallocs, num_frees, num_reuses,
                           num_grows, num_splits, num_coalesces, num_blocks,
                           num_requested, max_heap, status, owned, freed, peak,
                           calls, scan>>

\* A caller of all four entry points.
Next == Malloc \/ Free \/ Calloc \/ Realloc \/ Store
Spec == Init /\ [][Next]_vars

\* A caller of malloc, calloc and free with ordinary sizes, followed longer.
MallocLong == MallocOf(OrdinarySizes, MaxCallsLong)
FreeLong == FreeOf(MaxCallsLong)
CallocLong == CallocOf(OrdinaryCallocArgs, MaxCallsLong)
NextLong == MallocLong \/ FreeLong \/ CallocLong
SpecLong == Init /\ [][NextLong]_vars

\* A worst-fit build about to search a heap list of at most MaxBlocks blocks,
\* some of them of 2 GiB and more, on a platform that grants such requests:
\* a list that mallocs which each grew the heap and frees of blocks that are
\* not neighbours leave behind.
MaxBlocks == 3
ScanSizes == {Wide(8), Wide(16), <<0, 0, 32768, 0>>, <<0, 1, 0, 8>>}
ScanTargets == {Wide(8), Wide(16)}
ScanBlocks == [size : ScanSizes, free : BOOLEAN]
ScanLists ==
    {blocks \in UNION {[1 .. n -> ScanBlocks] : n \in 1 .. MaxBlocks} :
        \A i \in 1 .. (Len(blocks) - 1) : ~(blocks[i].free /\ blocks[i + 1].free)}

InitWorst ==
    /\ Start
    /\ fit = "WORST"
    /\ scan \in [blocks : ScanLists, size : ScanTargets, done : {FALSE}, ret : {0}]

\* findFreeBlock(&last, size) on the list given.
FindWorst ==
    /\ ~scan.done
    /\ fit = "WORST"
    /\ scan' = [scan EXCEPT !.done = TRUE,
                            !.ret = WorstFitScan(scan.blocks, 1, scan.size,
                                                 Wide(0), 0)]
    /\ UNCHANGED <<fit, mem, brk, sbrk_calls, sbrk_denied, heapList, actualLast,
                   atexit_registered, num_mallocs, num_frees, num_reuses,
                   num_grows, num_splits, num_coalesces, num_blocks,
                   num_requested, max_heap, status, owned, freed, peak, call,
                   calls>>

NextWorst == FindWorst
SpecWorst == InitWorst /\ [][NextWorst]_vars

\* ============================================================ properties
\* The heap list as the sequence of its blocks, from heapList up to NULL (or
\* to the first block the program could not read or has met before).
RECURSIVE ListFrom(_, _, _)
ListFrom(s, b, seen) ==
    IF b = NULL \/ b \in seen \/ ~Block(s, b) THEN <<>>
    ELSE <<b>> \o ListFrom(s, b_next(s, b), seen \cup {b})
List == ListFrom(M, heapList, {})
Tracked == {List[i] : i \in DOMAIN List}

\* The step is a public call op that returned (the process still runs).
Returned(op) == calls' = calls + 1 /\ call'.op = op /\ status' = "running"

\* The bytes of a from, of length la, and those of c from, of length lc,
\* share an address.  The lengths are words: a negative one is a length near
\* 2^64, which from any address of the data segment reaches past every other.
Below(x, a, la) == la < 0 \/ x < a + la
Overlap(a, la, c, lc) == la # 0 /\ lc # 0 /\ Below(a, c, lc) /\ Below(c, a, la)

\* C1 -- Every pointer the caller holds (returned by malloc, calloc or realloc
\* and not freed since) is the payload of a block of the heap list that is not
\* free, and the bytes from the pointer to the pointer plus that block's
\* recorded size overlap neither the header nor the payload of any other block
\* of the list.  (As the claim states it; the model refutes it.)
C1_LiveBlocksDisjoint ==
    status = "running" =>
        \A p \in DOMAIN owned :
            /\ BLOCK_HEADER(p) \in Tracked
            /\ b_free(M, BLOCK_HEADER(p)) = 0
            /\ \A c \in Tracked \ {BLOCK_HEADER(p)} :
                /\ ~Overlap(p, b_size(M, BLOCK_HEADER(p)), c, HeaderSize)
                /\ ~Overlap(p, b_size(M, BLOCK_HEADER(p)), BLOCK_DATA(c), b_size(M, c))

\* No two blocks next to each other in the list are both free.
NoAdjacentFree ==
    \A i \in 1 .. (Len(List) - 1) :
        ~(b_free(M, List[i]) = 1 /\ b_free(M, List[i + 1]) = 1)

\* C2 -- When free(ptr) with a non-null ptr (one the caller held) has returned,
\* no two consecutive blocks of the heap list are both free.  (As the claim states it; the model
\* refutes it.)
C2_FreeLeavesNoAdjacentFree ==
    (status = "running" /\ call.op = "free" /\ call.ptr # NULL /\ ~call.again)
    => NoAdjacentFree

\* C3 -- Three blocks L, M, R, consecutive in the list and all allocated, then
\* freed in any order, leave one free block at L's address, of size
\* L.size + M.size + R.size + 2 * sizeof(struct _block), linked to what followed
\* R.  The case here: the three blocks are the whole heap (three mallocs that
\* each grew it, all three held at once, max_heap the sum of their sizes).
\* (As the claim states it; the model refutes it.)
C3_ThreeFreedBecomeOne ==
    (/\ status = "running"
     /\ num_mallocs = 3 /\ num_grows = 3 /\ peak = 3
     /\ num_frees = 3 /\ owned = <<>>)
    => /\ List = <<Brk0>>
       /\ b_free(M, Brk0) = 1
       /\ b_size(M, Brk0) = max_heap + 2 * HeaderSize
       /\ b_next(M, Brk0) = NULL

\* C4 -- When the OS denies the sbrk request of a call, the call returns NULL
\* to its caller and makes no further OS request.  (As the claim states it;
\* the model refutes it.)
C4_DeniedReturnsNull ==
    [][sbrk_denied' > sbrk_denied =>
          /\ status' = "running"
          /\ call'.ret = NULL
          /\ sbrk_calls' = sbrk_calls + 1]_vars

\* What the program keeps in memory and in its globals, the OS's books of it
\* included: everything of the process but its status.
Kept == <<mem, brk, sbrk_calls, sbrk_denied, heapList, actualLast,
          atexit_registered, num_mallocs, num_frees, num_reuses, num_grows,
          num_splits, num_coalesces, num_blocks, num_requested, max_heap>>

FlaggedFreeAborts ==
    [][(/\ calls' = calls + 1
        /\ call'.op = "free"
        /\ call'.ptr # NULL
        /\ b_free(M, BLOCK_HEADER(call'.ptr)) = 1)
       => (status' = "aborted" /\ UNCHANGED Kept)]_vars

\* The heap list, the next-fit cursor and the nine counters.
ListCursorCounters == <<mem, brk, heapList, actualLast,
                        num_mallocs, num_frees, num_reuses, num_grows,
                        num_splits, num_coalesces, num_blocks, num_requested,
                        max_heap>>

\* C6 -- malloc(0) returns NULL and leaves the heap list (its head and every
\* byte of its blocks), the next-fit cursor and the nine counters unchanged.
C6_MallocZero ==
    [][(calls' = calls + 1 /\ call'.op = "malloc" /\ call'.size = 0)
       => (/\ status' = "running"
           /\ call'.ret = NULL
           /\ UNCHANGED ListCursorCounters)]_vars

\* malloc(0) has been called on a heap that has blocks, free ones among them.
C6_Witness ==
    /\ call.op = "malloc" /\ call.size = 0 /\ call.ret = NULL
    /\ \E b \in Tracked : b_free(M, b) = 1

\* The least multiple of 4 that is >= v, as a word (modulo 2^64): of the four
\* words v, v + 1, v + 2, v + 3 the one congruent to 0.
RoundUp4(v) == CHOOSE k \in v .. (v + 3) : k % 4 = 0

\* C7 -- malloc(S) rounds S up to the least multiple of 4 that is >= S, in
\* arithmetic modulo 2^64, so S = 0 and S > SIZE_MAX - 3 round to zero; it
\* rejects with NULL the requests that round to zero and no other (a request
\* the OS has been asked for and denied aside, which is C4's); and the block
\* of the pointer it returns records a size that is a multiple of 4 and >= S.
C7_Rounding ==
    [][(calls' = calls + 1 /\ call'.op = "malloc")
       => /\ ALIGN4(call'.size) = RoundUp4(call'.size)
          /\ (call'.size = 0 \/ call'.size \in (-3) .. (-1))
                 <=> (ALIGN4(call'.size) = 0)
          /\ ALIGN4(call'.size) = 0 => (status' = "running" /\ call'.ret = NULL)
          /\ (/\ ALIGN4(call'.size) # 0
              /\ status' = "running"
              /\ sbrk_denied' = sbrk_denied) => call'.ret # NULL
          /\ call'.ret # NULL =>
                /\ b_size(M', BLOCK_HEADER(call'.ret)) % 4 = 0
                /\ ~ULess(b_size(M', BLOCK_HEADER(call'.ret)), call'.size)]_vars

\* malloc(3) has returned a block that records 4 bytes.
C7_Witness ==
    /\ call.op = "malloc" /\ call.size = 3 /\ call.ret # NULL
    /\ b_size(M, BLOCK_HEADER(call.ret)) = 4

\* Some block of the list is free and of at least size bytes.
SomeFits(size) == \E b \in Tracked : Fits(M, b, size)

\* C8 -- Under every placement strategy a malloc(S) that returns, of an S
\* that does not round to zero, extends the heap if and only if no block of
\* the list is free with a size >= the rounded request; when one is, the call
\* adds one to the reuse counter and leaves the grow counter and the break as
\* they were (so p = malloc(S), free(p), malloc(S') with S' <= S reuses p's
\* block).  (As the claim states it; the model refutes it.)
C8_GrowsIffNothingFits ==
    [][(Returned("malloc") /\ ALIGN4(call'.size) # 0)
       => /\ (brk' # brk) <=> ~SomeFits(ALIGN4(call'.size))
          /\ (num_grows' = num_grows + 1) <=> ~SomeFits(ALIGN4(call'.size))
          /\ SomeFits(ALIGN4(call'.size)) =>
                (num_reuses' = num_reuses + 1 /\ num_grows' = num_grows)]_vars

\* C9 -- When malloc splits a free block of size T for a rounded request R,
\* the original block is returned allocated with size R, the new block is
\* free, lies at the original's address + sizeof(struct _block) + R, comes
\* right after the original in the list and before what followed it, and
\* R + new.size + sizeof(struct _block) = T.  (As the claim states it; the
\* model refutes it.)
C9_SplitShape ==
    [][(Returned("malloc") /\ num_splits' = num_splits + 1)
       => /\ call'.ret # NULL
          /\ b_free(M, BLOCK_HEADER(call'.ret)) = 1
          /\ b_size(M', BLOCK_HEADER(call'.ret)) = ALIGN4(call'.size)
          /\ b_free(M', BLOCK_HEADER(call'.ret)) = 0
          /\ b_next(M', BLOCK_HEADER(call'.ret)) = call'.ret + ALIGN4(call'.size)
          /\ b_free(M', call'.ret + ALIGN4(call'.size)) = 1
          /\ b_next(M', call'.ret + ALIGN4(call'.size))
                 = b_next(M, BLOCK_HEADER(call'.ret))
          /\ ALIGN4(call'.size) + b_size(M', call'.ret + ALIGN4(call'.size))
                 + HeaderSize = b_size(M, BLOCK_HEADER(call'.ret))]_vars

\* min(oldSize, newSize) of two words.
UMin(a, b) == IF ULess(a, b) THEN a ELSE b

\* C10 -- A realloc(p, newSize) with p non-null and newSize > 0 that succeeds
\* returns a pointer q other than p whose first min(oldSize, newSize) bytes
\* are the bytes p held before the call (oldSize the size p's block recorded),
\* and after the call p's block is marked free and q's block allocated.  (As
\* the claim states it; the model refutes it.)
C10_ReallocMoves ==
    [][(/\ Returned("realloc")
        /\ call'.ptr # NULL /\ call'.size # 0 /\ call'.ret # NULL)
       => /\ call'.ret # call'.ptr
          /\ \A i \in 0 .. (UMin(b_size(M, BLOCK_HEADER(call'.ptr)), call'.size) - 1) :
                 mem'[call'.ret + i] = mem[call'.ptr + i]
          /\ b_free(M', BLOCK_HEADER(call'.ptr)) = 1
          /\ b_free(M', BLOCK_HEADER(call'.ret)) = 0]_vars

\* C11 -- A calloc(n, s) with n * s > 0 that succeeds returns a region whose
\* first n * s bytes, all inside the data segment, read as zero right after
\* the call, also when the block is a reused or split free block that held
\* the caller's non-zero bytes before.
C11_CallocZeroFilled ==
    [][(Returned("calloc") /\ call'.ret # NULL /\ call'.nmemb * call'.size > 0)
       => /\ InHeap(M', call'.ret, call'.nmemb * call'.size)
          /\ \A i \in 0 .. (call'.nmemb * call'.size - 1) :
                 mem'[call'.ret + i] = 0]_vars

\* calloc(1, 3) has returned a reused block in which the caller had stored
\* its pattern: the three bytes asked for read zero, the fourth still holds
\* what the caller stored.
C11_Witness ==
    /\ status = "running"
    /\ call.op = "calloc" /\ call.nmemb * call.size = 3 /\ call.ret # NULL
    /\ num_reuses > 0
    /\ \A i \in 0 .. 2 : mem[call.ret + i] = 0
    /\ mem[call.ret + 3] = Pattern(3)

\* C12 -- realloc's degenerate cases delegate exactly: realloc(NULL, size)
\* returns what malloc(size) returns from the same state (under the same
\* answer of the OS) and leaves the process (memory, heap list, cursor,
\* counters, status) as malloc(size) leaves it; realloc(p, 0) of a pointer p
\* the caller holds leaves the process as free(p) leaves it and returns NULL.
C12_ReallocDelegates ==
    [][(calls' = calls + 1 /\ call'.op = "realloc")
       => /\ call'.ptr = NULL =>
                \E granted \in BOOLEAN :
                    malloc(M, call'.size, granted) = [s |-> M', ret |-> call'.ret]
          /\ (call'.ptr # NULL /\ call'.size = 0) =>
                (M' = free(M, call'.ptr) /\ call'.ret = NULL)]_vars

\* realloc(p, 0) has returned for a pointer p the caller had got from the
\* one allocation before it: the block it grew is marked free.
C12_Witness ==
    /\ status = "running"
    /\ call.op = "realloc" /\ call.ptr # NULL /\ call.size = 0
    /\ calls = 2 /\ num_mallocs = 1 /\ num_frees = 1
    /\ b_free(M, BLOCK_HEADER(call.ptr)) = 1

\* C13 -- In a next-fit build each search starts at the cursor the search
\* before it left (the last block it visited), not at the head of the list,
\* and wraps to the head only when no free block that fits lies between the
\* cursor and the end of the list: with a fitting free block before the
\* cursor and one after it, the one after it is chosen.  The case here: three
\* mallocs have grown the heap to the blocks a, b, c, all three held at once
\* (the third search ended on b, and b is still allocated), a and c have been
\* freed, and the next malloc fits both a and c.  (As the claim states it;
\* the model refutes it.)
C13_NextFitResumes ==
    [][(/\ fit = "NEXT"
        /\ Returned("malloc")
        /\ ALIGN4(call'.size) # 0
        /\ num_mallocs = 3 /\ num_grows = 3 /\ peak = 3
        /\ Len(List) = 3
        /\ Fits(M, List[1], ALIGN4(call'.size))
        /\ b_free(M, List[2]) = 0
        /\ Fits(M, List[3], ALIGN4(call'.size)))
       => call'.ret = BLOCK_DATA(List[3])]_vars

\* The rounded sizes the callers of the model make malloc search for.
Targets == {ALIGN4(request) : request \in MallocSizes} \ {0}

\* C14 -- In a best-fit build, for every heap list and target size,
\* findFreeBlock returns a block of the list that is free with size >= target
\* and whose size is the least among all such blocks, and returns no block
\* exactly when no block of the list is free with size >= target.  (As the
\* claim states it; the model refutes it.)
C14_BestFit ==
    (fit = "BEST" /\ status = "running") =>
        \A size \in Targets :
            \A r \in {findFreeBlock(M, heapList, size)} :
                Running(r.s) =>
                    /\ (r.curr = NULL) <=> ~SomeFits(size)
                    /\ r.curr # NULL =>
                          /\ r.curr \in Tracked
                          /\ Fits(M, r.curr, size)
                          /\ \A b \in Tracked :
                                 Fits(M, b, size) =>
                                     ~ULess(b_size(M, b), b_size(M, r.curr))

\* Block i of the list given to the scan is free and of at least its target.
ScanFits(i) ==
    scan.blocks[i].free /\ ~WideLess(scan.blocks[i].size, scan.size)

\* C15 -- In a worst-fit build, for every heap list and target size,
\* findFreeBlock returns a block of the list that is free with size >= target
\* and whose size is the greatest among all such blocks, and returns no block
\* exactly when no block of the list is free with size >= target.  (As the
\* claim states it; the model refutes it.)
C15_WorstFit ==
    scan.done =>
        /\ (scan.ret = 0) <=> ~\E i \in DOMAIN scan.blocks : ScanFits(i)
        /\ scan.ret # 0 =>
              /\ scan.ret \in DOMAIN scan.blocks
              /\ ScanFits(scan.ret)
              /\ \A i \in DOMAIN scan.blocks :
                     ScanFits(i) =>
                         ~WideLess(scan.blocks[scan.ret].size, scan.blocks[i].size)

\* C16 -- In a first-fit build, for every heap list and target size,
\* findFreeBlock returns the lowest-address block of the list that is free
\* with size >= target (every block before it in the list fails that test),
\* and returns no block exactly when no block of the list passes it.
C16_FirstFit ==
    (fit = "FIT" /\ status = "running") =>
        \A size \in Targets :
            \A r \in {findFreeBlock(M, heapList, size)} :
                Running(r.s) =>
                    /\ (r.curr = NULL) <=> ~SomeFits(size)
                    /\ r.curr # NULL =>
                          /\ r.curr \in Tracked
                          /\ Fits(M, r.curr, size)
                          /\ \A b \in Tracked : Fits(M, b, size) => b >= r.curr
                          /\ \A j \in DOMAIN List :
                                 List[j] = r.curr =>
                                     \A i \in 1 .. (j - 1) : ~Fits(M, List[i], size)

\* A first-fit malloc(8) has reused the third block of the list, passing over
\* the first, which is free and too small, and the second, which is not free.
C16_Witness ==
    /\ fit = "FIT" /\ status = "running"
    /\ call.op = "malloc" /\ call.size = 8 /\ call.ret # NULL
    /\ num_reuses = 1
    /\ Len(List) = 3
    /\ call.ret = BLOCK_DATA(List[3])
    /\ b_free(M, List[1]) = 1 /\ b_size(M, List[1]) = 4
    /\ b_free(M, List[2]) = 0

\* C17 -- In every state reachable by malloc, free, calloc and realloc calls
\* (the program being the only caller of sbrk) the heap list is acyclic (the
\* walk from heapList ends at NULL), address-ordered and without gaps: every
\* block b with a successor has b.next = b + sizeof(struct _block) + b.size at
\* a higher address, and the last block ends at the program break.
C17_ListContiguous ==
    (status = "running" /\ ~call.again) =>
        /\ heapList = NULL => brk = Brk0
        /\ heapList # NULL =>
              /\ List # <<>>
              /\ b_next(M, List[Len(List)]) = NULL
              /\ List[Len(List)] + HeaderSize + b_size(M, List[Len(List)]) = brk
        /\ \A i \in 1 .. (Len(List) - 1) :
              /\ List[i + 1] = List[i] + HeaderSize + b_size(M, List[i])
              /\ List[i + 1] > List[i]

\* C18 -- Under every placement strategy, whenever malloc (called directly
\* or by calloc) grows the heap, the block it hands to growHeap as last is the
\* tail of the list: the new block, at the old program break, becomes the new
\* tail, with size the rounded request, free = false and no successor, every
\* block listed before is still listed, in the same order, and on an empty
\* heap the new block becomes the head.
C18_GrowAppends ==
    [][(/\ calls' = calls + 1
        /\ call'.op \in {"malloc", "calloc"}
        /\ status' = "running"
        /\ num_grows' = num_grows + 1)
       => /\ call'.ret = BLOCK_DATA(brk)
          /\ ListFrom(M', heapList', {}) = Append(List, brk)
          /\ heapList = NULL => heapList' = brk
          /\ b_size(M', brk) = ALIGN4(IF call'.op = "calloc"
                                      THEN call'.nmemb * call'.size
                                      ELSE call'.size)
          /\ b_free(M', brk) = 0
          /\ b_next(M', brk) = NULL]_vars

\* A next-fit malloc(8) has grown a heap of two blocks by a third, passing
\* over a first block that is free and too small.
C18_Witness ==
    /\ fit = "NEXT" /\ status = "running"
    /\ call.op = "malloc" /\ call.size = 8 /\ call.ret # NULL
    /\ num_grows = 3
    /\ Len(List) = 3
    /\ BLOCK_HEADER(call.ret) = List[3]
    /\ b_free(M, List[1]) = 1 /\ b_size(M, List[1]) = 4

\* T > R + sizeof(struct _block) for two sizes as the numbers they are (below
\* 2^64, a negative word being a number near 2^64), the sum not wrapped.
Exceeds(T, R) == IF (T >= 0) = (R >= 0) THEN T > R + HeaderSize ELSE T < 0

\* C19 -- When malloc finds a free block of size T for a rounded request R it
\* splits the block if and only if T > R + sizeof(struct _block); when
\* R <= T <= R + sizeof(struct _block) the whole block is returned with its
\* size T unchanged, the list has as many blocks as before, and the reuse
\* counter goes up by one while the split and grow counters stay.  (As the
\* claim states it; the model refutes it.)
C19_SplitIffRoom ==
    [][(Returned("malloc") /\ num_reuses' = num_reuses + 1)
       => /\ call'.ret # NULL
          /\ (num_splits' = num_splits + 1)
                 <=> Exceeds(b_size(M, BLOCK_HEADER(call'.ret)), ALIGN4(call'.size))
          /\ ~Exceeds(b_size(M, BLOCK_HEADER(call'.ret)), ALIGN4(call'.size)) =>
                /\ b_size(M', BLOCK_HEADER(call'.ret))
                       = b_size(M, BLOCK_HEADER(call'.ret))
                /\ Len(ListFrom(M', heapList', {})) = Len(List)
                /\ num_splits' = num_splits
                /\ num_grows' = num_grows]_vars

\* C20 -- Between public calls the counters satisfy num_mallocs = num_reuses
\* + num_grows, num_splits <= num_reuses and num_blocks = num_grows: a call
\* that returns a block counts one malloc and exactly one of a reuse and a
\* growth, and a call that returns NULL (a request of zero bytes, a request
\* that fails, a free) or fails an assert changes none of the five.
C20_Counters ==
    [][/\ status' = "running" =>
              /\ num_mallocs' = num_reuses' + num_grows'
              /\ num_splits' <= num_reuses'
              /\ num_blocks' = num_grows'
       /\ (Returned(call'.op) /\ call'.ret # NULL) =>
              /\ num_mallocs' = num_mallocs + 1
              /\ \/ num_reuses' = num_reuses + 1 /\ num_grows' = num_grows
                 \/ num_reuses' = num_reuses /\ num_grows' = num_grows + 1
       /\ (/\ calls' = calls + 1
           /\ status' \in {"running", "aborted"}
           /\ call'.ret = NULL) =>
              UNCHANGED <<num_mallocs, num_reuses, num_grows, num_splits,
                          num_blocks>>]_vars

\* A malloc(3) has split and reused the block that a malloc(36) had grown:
\* two mallocs, one growth, one reuse, one split.
C20_Witness ==
    /\ status = "running"
    /\ call.op = "malloc" /\ call.size = 3 /\ call.ret # NULL
    /\ num_mallocs = 2 /\ num_grows = 1 /\ num_reuses = 1 /\ num_splits = 1
    /\ num_blocks = 1

====
